---------------------------- MODULE Spec2Model ----------------------------
(***************************************************************************)
(* A model of api_tester.py: the APITester class (environment loading,     *)
(* {{var}} substitution, request dispatch, history, assertions) and the    *)
(* run_collection command.                                                 *)
(*                                                                         *)
(* Python strings are modelled as tuples of one-character strings, so that *)
(* startswith, split, strip, replace, int() and re.sub are computed        *)
(* character by character, as the interpreter does.                        *)
(***************************************************************************)
EXTENDS Integers, Sequences, FiniteSets, TLC

VARIABLES
    pc,            \* position of the running command
    environ,       \* os.environ: function from names to values
    dotenv_file,   \* contents of self.env_file ('.env'), or NoFile
    env_dir,       \* self.env_dir: environment name -> contents, or NoFile
    current_env,   \* self.current_env
    loaded,        \* the files load_environment handed to load_dotenv, in order
    segments,      \* the pieces the text under substitution was built from
    text,          \* argument of substitute_vars
    result,        \* value returned by substitute_vars
    request,       \* arguments of send_request
    http_call,     \* keyword arguments received by requests.request
    response,      \* a requests.Response: status_code and body
    assertions,    \* argument of run_test
    idx,           \* index of the assertion the loop of run_test is at
    results,       \* results dict of run_test
    trace,         \* per assertion: what the evaluation did
    history_file,  \* self.history_file: NoFile, CorruptFile or a list
    clock,         \* datetime.now(), a counter
    saves,         \* entries written by save_to_history, in order
    collection,    \* what load_collection returned
    req_i,         \* loop index of run_collection (0-based: requests done)
    tally,         \* results dict of run_collection
    dispatched,    \* requests handed to requests.request, in order
    outcomes       \* per request of the collection run: what happened

vars == <<pc, environ, dotenv_file, env_dir, current_env, loaded, segments,
          text, result, request, http_call, response, assertions, idx,
          results, trace, history_file, clock, saves, collection, req_i,
          tally, dispatched, outcomes>>

envVars  == <<environ, dotenv_file, env_dir, current_env, loaded>>
subVars  == <<segments, text, result>>
sendVars == <<request, http_call>>
testVars == <<response, assertions, idx, results, trace>>
histVars == <<history_file, clock, saves>>
collVars == <<collection, req_i, tally, dispatched, outcomes>>

----------------------------------------------------------------------------
(* Bounds of the model *)

MaxSegments == 3     \* pieces a substituted text is built from
MaxAssertions == 2   \* assertions handed to run_test
MaxSaves == 3        \* save_to_history calls in a history run
MaxRequests == 3     \* requests of a collection

----------------------------------------------------------------------------
(* Python str operations on tuples of characters *)

Whitespace == {" ", "\t", "\n", "\r"}
Digits == {"0","1","2","3","4","5","6","7","8","9"}
Letters == {"a","b","c","d","e","f","g","h","i","j","k","l","m","n","o","p",
            "q","r","s","t","u","v","w","x","y","z",
            "A","B","C","D","E","F","G","H","I","J","K","L","M","N","O","P",
            "Q","R","S","T","U","V","W","X","Y","Z"}
\* \w of the re module, restricted to ASCII
WordChars == Letters \cup Digits \cup {"_"}

Slice(s, a, b) == IF a > b THEN << >> ELSE SubSeq(s, a, b)

\* s.startswith(p)
StartsWith(s, p) == Len(p) <= Len(s) /\ SubSeq(s, 1, Len(p)) = p

OccursAt(s, sub, p) == p + Len(sub) - 1 <= Len(s) /\ SubSeq(s, p, p + Len(sub) - 1) = sub

\* s.find(sub), 1-based; 0 when sub does not occur
Find(s, sub) ==
    LET hits == {p \in 1..Len(s) : OccursAt(s, sub, p)}
    IN  IF hits = {} THEN 0 ELSE CHOOSE p \in hits : \A q \in hits : p <= q

RECURSIVE Split(_, _)
\* s.split(sep): every occurrence of sep, left to right, separates two pieces
Split(s, sep) ==
    LET p == Find(s, sep)
    IN  IF p = 0 THEN <<s>>
        ELSE <<Slice(s, 1, p - 1)>> \o Split(Slice(s, p + Len(sep), Len(s)), sep)

RECURSIVE Replace(_, _, _)
\* s.replace(old, new): every occurrence of old, left to right
Replace(s, old, new) ==
    LET p == Find(s, old)
    IN  IF p = 0 THEN s
        ELSE Slice(s, 1, p - 1) \o new \o Replace(Slice(s, p + Len(old), Len(s)), old, new)

\* s.strip(chars)
StripChars(s, chars) ==
    LET keep == {p \in 1..Len(s) : s[p] \notin chars}
    IN  IF keep = {} THEN << >>
        ELSE Slice(s, CHOOSE p \in keep : \A q \in keep : p <= q,
                      CHOOSE p \in keep : \A q \in keep : p >= q)

\* s.strip()
Strip(s) == StripChars(s, Whitespace)

DigitValue(c) ==
    CASE c = "0" -> 0 [] c = "1" -> 1 [] c = "2" -> 2 [] c = "3" -> 3 [] c = "4" -> 4
      [] c = "5" -> 5 [] c = "6" -> 6 [] c = "7" -> 7 [] c = "8" -> 8 [] c = "9" -> 9

DigitChar(d) == <<"0","1","2","3","4","5","6","7","8","9">>[d + 1]

RECURSIVE DigitsValue(_)
DigitsValue(ds) ==
    IF ds = << >> THEN 0
    ELSE 10 * DigitsValue(Slice(ds, 1, Len(ds) - 1)) + DigitValue(ds[Len(ds)])

\* int(s): surrounding whitespace, an optional sign, digits with single
\* underscores between them; anything else raises ValueError
IntParse(s) ==
    LET t      == Strip(s)
        signed == t # << >> /\ t[1] \in {"+", "-"}
        body   == IF signed THEN Tail(t) ELSE t
        wellFormed ==
            /\ body # << >>
            /\ \A p \in 1..Len(body) : body[p] \in Digits \cup {"_"}
            /\ body[1] # "_" /\ body[Len(body)] # "_"
            /\ \A p \in 1..(Len(body) - 1) : ~(body[p] = "_" /\ body[p + 1] = "_")
        ds     == SelectSeq(body, LAMBDA c : c # "_")
    IN  IF wellFormed
        THEN [ok |-> TRUE, v |-> IF signed /\ t[1] = "-" THEN 0 - DigitsValue(ds) ELSE DigitsValue(ds)]
        ELSE [ok |-> FALSE, v |-> 0]

RECURSIVE NatStr(_)
NatStr(n) == IF n < 10 THEN <<DigitChar(n)>> ELSE NatStr(n \div 10) \o <<DigitChar(n % 10)>>

\* str(n) of an int
IntStr(n) == IF n < 0 THEN <<"-">> \o NatStr(0 - n) ELSE NatStr(n)

RECURSIVE Flatten(_)
\* "".join(pieces)
Flatten(pieces) == IF pieces = << >> THEN << >> ELSE Head(pieces) \o Flatten(Tail(pieces))

Lower == <<"a","b","c","d","e","f","g","h","i","j","k","l","m",
           "n","o","p","q","r","s","t","u","v","w","x","y","z">>
Upper == <<"A","B","C","D","E","F","G","H","I","J","K","L","M",
           "N","O","P","Q","R","S","T","U","V","W","X","Y","Z">>

\* s.upper()
StrUpper(s) ==
    [p \in 1..Len(s) |->
        IF \E k \in 1..26 : Lower[k] = s[p]
        THEN Upper[CHOOSE k \in 1..26 : Lower[k] = s[p]]
        ELSE s[p]]

----------------------------------------------------------------------------
(* Python values: None, str, int, bool, dict (keys in insertion order) *)

PyNone == [kind |-> "none"]
PyStr(s) == [kind |-> "str", v |-> s]
PyInt(n) == [kind |-> "int", v |-> n]
PyBool(b) == [kind |-> "bool", v |-> b]
PyList(xs) == [kind |-> "list", v |-> xs]
\* keys: the keys in insertion order; at: key -> value
PyDict(keys, at) == [kind |-> "dict", keys |-> keys, at |-> at]
PyTuple(xs) == [kind |-> "tuple", v |-> xs]
EmptyDict == PyDict(<< >>, << >>)

\* A path for which Path.exists() is false
NoFile == [kind |-> "absent"]

\* bool(x) of a value used as a condition
Truthy(x) ==
    CASE x.kind = "none" -> FALSE
      [] x.kind = "dict" -> x.keys # << >>
      [] x.kind \in {"str", "list", "tuple"} -> x.v # << >>
      [] x.kind = "int" -> x.v # 0
      [] x.kind = "bool" -> x.v

----------------------------------------------------------------------------
(* substitute_vars *)

\* os.getenv(name, default)
getenv(name, default) == IF name \in DOMAIN environ THEN environ[name] ELSE default

\* Last position of the longest run of \w characters that starts at p
\* (p - 1 when t[p] is no \w character)
WordRunEnd(t, p) ==
    LET stops == {q \in p..(Len(t) + 1) : q = Len(t) + 1 \/ t[q] \notin WordChars}
    IN  (CHOOSE q \in stops : \A r \in stops : q <= r) - 1

\* Last position of a match of \{\{(\w+)\}\} that starts at p; 0 when none does.
\* \w+ is greedy and "}" is no \w character, so only the longest run can match.
MatchEnd(t, p) ==
    LET e == WordRunEnd(t, p + 2)
    IN  IF /\ OccursAt(t, <<"{","{">>, p)
           /\ e >= p + 2
           /\ OccursAt(t, <<"}","}">>, e + 1)
        THEN e + 2 ELSE 0

\* replace(match): the value of the variable, or the match itself
replace(t, p, e) == getenv(Slice(t, p + 2, e - 2), Slice(t, p, e))

RECURSIVE ReSub(_, _)
\* re.sub(pattern, replace, t) from position p on: non-overlapping matches,
\* leftmost first; the scan continues after the match in t
ReSub(t, p) ==
    IF p > Len(t) THEN << >>
    ELSE LET e == MatchEnd(t, p)
         IN  IF e = 0 THEN <<t[p]>> \o ReSub(t, p + 1)
             ELSE replace(t, p, e) \o ReSub(t, e + 1)

\* A substitution that scans its own output once more
substitute_vars_rescan(t) == ReSub(ReSub(t, 1), 1)

substitute_vars(t) == ReSub(t, 1)

----------------------------------------------------------------------------
(* Idle values of the variables a command does not use *)

IdleEnv  == /\ dotenv_file = NoFile /\ env_dir = << >>
            /\ current_env = << >> /\ loaded = << >>
IdleSub  == segments = << >> /\ text = << >> /\ result = << >>
IdleSend == request = PyNone /\ http_call = PyNone
IdleTest == /\ response = PyNone /\ assertions = << >> /\ idx = 0
            /\ results = [passed |-> << >>, failed |-> << >>] /\ trace = << >>
IdleHist == history_file = NoFile /\ clock = 0 /\ saves = << >>
IdleColl == /\ collection = [kind |-> "none"] /\ req_i = 0
            /\ tally = [passed |-> 0, failed |-> 0, total |-> 0]
            /\ dispatched = << >> /\ outcomes = << >>

----------------------------------------------------------------------------
(* Substitution runs: substitute_vars applied to a text built from pieces *)

Var_a == <<"a">>
Var_b == <<"b">>
Var_c == <<"c">>

\* Process environments: name -> value
Environments ==
    << \* a's value holds the token of the bound variable b
       (Var_a :> <<"{","{","b","}","}">>) @@ (Var_b :> <<"x">>),
       \* a's value opens a token that the following text would close
       (Var_a :> <<"{","{">>) @@ (Var_b :> <<"y","{","{","a","}","}">>),
       \* nothing bound
       << >> >>

Token(name) == <<"{","{">> \o name \o <<"}","}">>

\* Pieces of a text: tokens, and literal pieces no concatenation of which
\* forms a token
TokenPieces == {Token(Var_a), Token(Var_b), Token(Var_c)}
LiteralPieces == {<<"x","/">>, <<"/","{">>, <<"{","{","a","-","b","}","}">>, <<"b","}","}">>}
Pieces == TokenPieces \cup LiteralPieces

InitSub ==
    /\ pc = "sub_start"
    /\ \E e \in 1..Len(Environments) : environ = Environments[e]
    /\ \E n \in 0..MaxSegments : segments \in [1..n -> Pieces]
    /\ text = Flatten(segments)
    /\ result = << >>
    /\ IdleEnv /\ IdleSend /\ IdleTest /\ IdleHist /\ IdleColl

Substitute ==
    /\ pc = "sub_start"
    /\ result' = substitute_vars(text)
    /\ pc' = "sub_done"
    /\ UNCHANGED <<envVars, segments, text, sendVars, testVars, histVars, collVars>>

NextSub == Substitute

SpecSub == InitSub /\ [][NextSub]_vars

\* The name inside a token piece
TokenName(piece) == Slice(piece, 3, Len(piece) - 2)

\* What one piece of the original text becomes: a token of a bound name
\* becomes the stored value, every other piece stays as it is
Expanded(piece) ==
    IF piece \in TokenPieces /\ TokenName(piece) \in DOMAIN environ
    THEN environ[TokenName(piece)]
    ELSE piece

\* C5: substitute_vars is one non-recursive pass: the result is the original
\* text with each token of a bound name replaced by the value exactly as
\* stored, and nothing a replacement introduced is scanned again, so a value
\* holding a token of a bound name appears verbatim.
C5_SinglePass ==
    pc = "sub_done" =>
        result = Flatten([k \in 1..Len(segments) |-> Expanded(segments[k])])

\* C5 witness: {{a}} was substituted where a's value is the token of the bound b
C5_Witness ==
    /\ pc = "sub_done"
    /\ \E k \in 1..Len(segments) : segments[k] = Token(Var_a)
    /\ Var_a \in DOMAIN environ /\ Var_b \in DOMAIN environ
    /\ environ[Var_a] = Token(Var_b)
    /\ Find(result, Token(Var_b)) > 0

----------------------------------------------------------------------------
(* send_request *)

\* str(v) of a header value
HeaderStr(v) == IF v.kind = "int" THEN IntStr(v.v) ELSE v.v

\* send_request with the substitution applied to the body and the
\* parameters as well
RequestKwargs_all_substituted(req) ==
    LET sub(x) ==
            CASE x.kind = "str" -> PyStr(substitute_vars(x.v))
              [] x.kind = "dict" ->
                    PyDict(x.keys, [k \in DOMAIN x.at |-> PyStr(substitute_vars(x.at[k].v))])
              [] OTHER -> x
    IN  [method  |-> StrUpper(req.method),
         url     |-> substitute_vars(req.url),
         headers |-> IF Truthy(req.headers)
                     THEN PyDict(req.headers.keys,
                                 [k \in DOMAIN req.headers.at |->
                                     PyStr(substitute_vars(HeaderStr(req.headers.at[k])))])
                     ELSE req.headers,
         params  |-> sub(req.params),
         json    |-> IF req.body.kind = "dict" THEN sub(req.body) ELSE PyNone,
         data    |-> IF req.body.kind # "dict" THEN sub(req.body) ELSE PyNone,
         auth    |-> req.auth,
         timeout |-> req.timeout,
         verify  |-> req.verify]

\* The keyword arguments send_request hands to requests.request
RequestKwargs(req) ==
    [method  |-> StrUpper(req.method),
     url     |-> substitute_vars(req.url),
     headers |-> IF Truthy(req.headers)
                 THEN PyDict(req.headers.keys,
                             [k \in DOMAIN req.headers.at |->
                                 PyStr(substitute_vars(HeaderStr(req.headers.at[k])))])
                 ELSE req.headers,
     params  |-> req.params,
     json    |-> IF req.body.kind = "dict" THEN req.body ELSE PyNone,
     data    |-> IF req.body.kind # "dict" THEN req.body ELSE PyNone,
     auth    |-> req.auth,
     timeout |-> req.timeout,
     verify  |-> req.verify]

\* What requests.request can do with a call: return a response with some
\* status code, or raise a RequestException
StatusCodes == {200, 201, 404, 500}
HttpOutcomes == {[raised |-> FALSE, status_code |-> c] : c \in StatusCodes}
                \cup {[raised |-> TRUE, status_code |-> 0]}

DefaultTimeout == 30

\* response.reason for the status codes of the model
Reason(code) ==
    CASE code = 200 -> <<"O","K">> [] code = 201 -> <<"C","r","e","a","t","e","d">>
      [] code = 404 -> <<"N","o","t"," ","F","o","u","n","d">> [] code = 500 -> <<"I","n","t","e","r","n","a","l"," ","S","e","r","v","e","r"," ","E","r","r","o","r">>

\* A body response.json() cannot parse
NotJson == [kind |-> "notjson"]

\* A requests.Response
Response(code, body) == [status_code |-> code, reason |-> Reason(code), body |-> body]

Dict1(k, v) == PyDict(<<k>>, k :> v)

UrlInputs == {<<"h","t","t","p",":","/","/","h","/","{","{","a","}","}">>, <<"h","t","t","p",":","/","/","h","/","x">>}
HeaderInputs == {PyNone, EmptyDict,
                 Dict1(<<"K">>, PyStr(<<"t","-","{","{","a","}","}">>)),
                 Dict1(<<"{","{","a","}","}">>, PyStr(<<"{","{","c","}","}">>)),
                 PyDict(<<<<"A">>, <<"N">>>>, (<<"A">> :> PyStr(<<"{","{","b","}","}">>)) @@ (<<"N">> :> PyInt(7)))}
ParamInputs == {PyNone, Dict1(<<"q">>, PyStr(<<"{","{","a","}","}">>))}
BodyInputs == {PyNone, PyStr(<<"r","a","w"," ","{","{","a","}","}">>), Dict1(<<"k">>, PyStr(<<"{","{","a","}","}">>)),
               PyList(<<PyStr(<<"{","{","a","}","}">>)>>)}
AuthInputs == {PyNone, PyTuple(<<<<"{","{","a","}","}">>, <<"{","{","b","}","}">>>>)}

InitSend ==
    /\ pc = "send_start"
    /\ \E e \in {1, 3} : environ = Environments[e]
    /\ \E u \in UrlInputs, h \in HeaderInputs, p \in ParamInputs,
          b \in BodyInputs, a \in AuthInputs, m \in {<<"g","e","t">>, <<"p","o","s","t">>} :
          request = [method |-> m, url |-> u, headers |-> h, params |-> p,
                     body |-> b, auth |-> a, timeout |-> DefaultTimeout,
                     verify |-> TRUE]
    /\ http_call = PyNone
    /\ response = PyNone
    /\ assertions = << >> /\ idx = 0 /\ trace = << >>
    /\ results = [passed |-> << >>, failed |-> << >>]
    /\ IdleEnv /\ IdleSub /\ IdleHist /\ IdleColl

\* send_request: one call of requests.request, which returns or raises
SendRequest ==
    /\ pc = "send_start"
    /\ http_call' = RequestKwargs(request)
    /\ \E o \in HttpOutcomes :
          IF o.raised
          THEN pc' = "send_raised" /\ UNCHANGED response
          ELSE pc' = "send_returned"
               /\ response' = Response(o.status_code, NotJson)
    /\ UNCHANGED <<envVars, subVars, request, assertions, idx, results, trace,
                   histVars, collVars>>

NextSend == SendRequest

SpecSend == InitSend /\ [][NextSend]_vars

\* The body the HTTP client received: json= for a dict, data= otherwise
BodyPassed(call) == IF call.json # PyNone THEN call.json ELSE call.data

HeaderNames(h) == IF h.kind = "dict" THEN h.keys ELSE << >>

\* C6: send_request substitutes in the URL and the header values only: the
\* body, the query parameters, the auth credentials and the header names
\* reach the HTTP client exactly as the caller supplied them.
C6_OnlyUrlAndHeaderValues ==
    pc \in {"send_returned", "send_raised"} =>
        /\ BodyPassed(http_call) = request.body
        /\ http_call.params = request.params
        /\ http_call.auth = request.auth
        /\ HeaderNames(http_call.headers) = HeaderNames(request.headers)
        /\ http_call.headers.kind = "dict" =>
              DOMAIN http_call.headers.at = DOMAIN request.headers.at

\* C6 witness: the URL was rewritten while body, parameters, credentials and
\* a header name holding tokens of the bound a were passed on
C6_Witness ==
    /\ pc = "send_returned"
    /\ Var_a \in DOMAIN environ
    /\ http_call.url # request.url
    /\ request.body = PyStr(<<"r","a","w"," ","{","{","a","}","}">>)
    /\ request.params # PyNone
    /\ request.auth # PyNone
    /\ request.headers = Dict1(<<"{","{","a","}","}">>, PyStr(<<"{","{","c","}","}">>))
    /\ BodyPassed(http_call) = request.body

----------------------------------------------------------------------------
(* save_to_history *)

HistoryCap == 100

CorruptFile == [kind |-> "corrupt"]
ListFile(entries) == [kind |-> "list", v |-> entries]

\* json.load of the history file raises when the file is not JSON
HistoryLoadRaises(file) == file.kind = "corrupt"

\* history = [] unless the file exists, and then what json.load returns
LoadedHistory(file) == IF file.kind = "list" THEN file.v ELSE << >>

HistoryEntry(now, method, url, resp) ==
    [timestamp |-> now, method |-> method, url |-> url,
     status_code |-> resp.status_code, status_text |-> resp.reason]

\* The entry appended, and the last 100 entries kept
HistoryAfterSave_keep_tail(history, entry) ==
    LET all == Append(history, entry)
    IN  Slice(all, IF Len(all) > HistoryCap THEN Len(all) - HistoryCap + 1 ELSE 1, Len(all))

\* history.insert(0, entry); history = history[:100]
HistoryAfterSave(history, entry) ==
    LET all == <<entry>> \o history
    IN  Slice(all, 1, IF Len(all) < HistoryCap THEN Len(all) ELSE HistoryCap)

\* An entry written by an earlier invocation
OldEntry(k) == [timestamp |-> 0 - k, method |-> <<"g","e","t">>, url |-> <<"h","t","t","p",":","/","/","o","l","d">>,
                status_code |-> 200, status_text |-> <<"O","K">>]
OldHistory(n) == [k \in 1..n |-> OldEntry(k)]

HistoryMethods == {<<"g","e","t">>, <<"p","o","s","t">>}
HistoryUrl == <<"h","t","t","p",":","/","/","h","/","{","{","a","}","}">>

InitHist ==
    /\ pc = "hist_run"
    /\ history_file \in {NoFile, CorruptFile} \cup
                        {ListFile(OldHistory(n)) : n \in {0, 1, 99, 100, 101}}
    /\ clock = 1
    /\ saves = << >>
    /\ environ = << >>
    /\ IdleEnv /\ IdleSub /\ IdleSend /\ IdleTest /\ IdleColl

\* One call of save_to_history, as the request command makes it
SaveToHistory ==
    /\ pc = "hist_run"
    /\ Len(saves) < MaxSaves
    /\ \E m \in HistoryMethods, c \in {200, 404} :
          LET entry == HistoryEntry(clock, m, HistoryUrl, Response(c, NotJson))
          IN  IF HistoryLoadRaises(history_file)
              THEN pc' = "hist_raised" /\ UNCHANGED <<history_file, saves>>
              ELSE /\ history_file' = ListFile(HistoryAfterSave(LoadedHistory(history_file), entry))
                   /\ saves' = Append(saves, entry)
                   /\ pc' = pc
    /\ clock' = clock + 1
    /\ UNCHANGED <<envVars, subVars, sendVars, testVars, collVars>>

NextHist == SaveToHistory

SpecHist == InitHist /\ [][NextHist]_vars

\* C2: every save_to_history call on an absent or valid history file leaves
\* at most 100 entries, newest first: the new entry at index 0, then the
\* previous contents in their previous order, only the oldest dropped.
C2_NewestFirstCapped ==
    [][saves' # saves =>
        LET old == LoadedHistory(history_file)
            new == history_file'.v
        IN  /\ history_file'.kind = "list"
            /\ Len(new) <= HistoryCap
            /\ Len(new) = IF Len(old) + 1 < HistoryCap THEN Len(old) + 1 ELSE HistoryCap
            /\ new[1] = saves'[Len(saves')]
            /\ \A k \in 2..Len(new) : new[k] = old[k - 1]]_vars

\* C2 witness: two saves onto a file of at least 99 entries: the two new
\* entries lead, newest first, and the entries beyond 100 are gone
C2_Witness ==
    /\ Len(saves) = 2
    /\ history_file.kind = "list"
    /\ Len(history_file.v) = HistoryCap
    /\ history_file.v[1] = saves[2]
    /\ history_file.v[2] = saves[1]
    /\ history_file.v[HistoryCap] = OldEntry(HistoryCap - 2)

----------------------------------------------------------------------------
(* run_collection *)

\* d.get(key, default)
Get(d, key, default) == IF key \in DOMAIN d.at THEN d.at[key] ELSE default

\* The arguments run_collection gives send_request for one stored request;
\* auth, timeout and verify keep the defaults of send_request
SendArgs(req) ==
    [method  |-> Get(req, <<"m","e","t","h","o","d">>, PyStr(<<"G","E","T">>)).v,
     url     |-> Get(req, <<"u","r","l">>, PyStr(<< >>)).v,
     headers |-> Get(req, <<"h","e","a","d","e","r","s">>, PyNone),
     params  |-> Get(req, <<"p","a","r","a","m","s">>, PyNone),
     body    |-> Get(req, <<"b","o","d","y">>, PyNone),
     auth    |-> PyNone,
     timeout |-> DefaultTimeout,
     verify  |-> TRUE]

\* A request as the request command stores it with --save
StoredRequest(method, url, headers, params, body) ==
    PyDict(<<<<"m","e","t","h","o","d">>, <<"u","r","l">>, <<"h","e","a","d","e","r","s">>, <<"p","a","r","a","m","s">>, <<"b","o","d","y">>>>,
           (<<"m","e","t","h","o","d">> :> PyStr(method)) @@ (<<"u","r","l">> :> PyStr(url))
           @@ (<<"h","e","a","d","e","r","s">> :> headers) @@ (<<"p","a","r","a","m","s">> :> params) @@ (<<"b","o","d","y">> :> body))

CollectionRequests ==
    {StoredRequest(<<"p","o","s","t">>, <<"h","t","t","p",":","/","/","h","/","{","{","a","}","}">>, Dict1(<<"K">>, PyStr(<<"t","-","{","{","a","}","}">>)),
                   EmptyDict, Dict1(<<"k">>, PyStr(<<"{","{","a","}","}">>))),
     \* an imported request that names its URL only
     Dict1(<<"u","r","l">>, PyStr(<<"h","t","t","p",":","/","/","h","/","x">>))}

\* load_collection: None when the file does not exist
NoCollection == [kind |-> "none"]
Collection(reqs) == [kind |-> "dict", requests |-> reqs]

CollectionOutcomes == {o \in HttpOutcomes : o.raised \/ o.status_code \in {200, 404}}

NoTally == [passed |-> 0, failed |-> 0, total |-> 0]

InitColl ==
    /\ pc = "coll_start"
    /\ \/ collection = NoCollection
       \/ \E n \in 0..MaxRequests :
             \E reqs \in [1..n -> CollectionRequests] : collection = Collection(reqs)
    /\ req_i = 0 /\ tally = NoTally /\ dispatched = << >> /\ outcomes = << >>
    /\ history_file \in {NoFile, CorruptFile, ListFile(OldHistory(1))}
    /\ clock = 1 /\ saves = << >>
    /\ environ = Environments[1]
    /\ IdleEnv /\ IdleSub /\ IdleSend /\ IdleTest

\* load_collection returned None: the command returns
RunCollectionNotFound ==
    /\ pc = "coll_start"
    /\ collection = NoCollection
    /\ pc' = "coll_not_found"
    /\ UNCHANGED <<envVars, subVars, sendVars, testVars, histVars, collVars>>

\* The results dict before the loop
RunCollectionStart ==
    /\ pc = "coll_start"
    /\ collection # NoCollection
    /\ tally' = [passed |-> 0, failed |-> 0, total |-> Len(collection.requests)]
    /\ pc' = "coll_loop"
    /\ UNCHANGED <<envVars, subVars, sendVars, testVars, histVars,
                   collection, req_i, dispatched, outcomes>>

\* A loop body whose except clause lets the exception end the command
RunCollectionRequest_stop_on_error ==
    /\ pc = "coll_loop"
    /\ req_i < Len(collection.requests)
    /\ LET req == collection.requests[req_i + 1]
       IN  /\ dispatched' = Append(dispatched, [index |-> req_i + 1,
                                                call |-> RequestKwargs(SendArgs(req))])
           /\ \E o \in CollectionOutcomes :
                 IF o.raised
                 THEN /\ pc' = "coll_aborted"
                      /\ outcomes' = Append(outcomes, "send_raised")
                      /\ UNCHANGED <<tally, histVars>>
                 ELSE /\ tally' = IF o.status_code < 400
                                  THEN [tally EXCEPT !.passed = @ + 1]
                                  ELSE [tally EXCEPT !.failed = @ + 1]
                      /\ outcomes' = Append(outcomes, IF o.status_code < 400 THEN "ok" ELSE "http_error")
                      /\ clock' = clock + 1
                      /\ UNCHANGED <<history_file, saves>>
                      /\ pc' = pc
    /\ req_i' = req_i + 1
    /\ UNCHANGED <<envVars, subVars, sendVars, testVars, collection>>

\* One iteration of the loop: send_request, the tally, save_to_history, and
\* the except clause around the three
RunCollectionRequest ==
    /\ pc = "coll_loop"
    /\ req_i < Len(collection.requests)
    /\ LET req == collection.requests[req_i + 1]
           method == Get(req, <<"m","e","t","h","o","d">>, PyStr(<<"G","E","T">>)).v
           url == Get(req, <<"u","r","l">>, PyStr(<< >>)).v
       IN  /\ dispatched' = Append(dispatched, [index |-> req_i + 1,
                                                call |-> RequestKwargs(SendArgs(req))])
           /\ \E o \in CollectionOutcomes :
                 IF o.raised
                 THEN \* send_request raised: except clause
                      /\ tally' = [tally EXCEPT !.failed = @ + 1]
                      /\ outcomes' = Append(outcomes, "send_raised")
                      /\ UNCHANGED histVars
                 ELSE LET counted == IF o.status_code < 400
                                     THEN [tally EXCEPT !.passed = @ + 1]
                                     ELSE [tally EXCEPT !.failed = @ + 1]
                          entry == HistoryEntry(clock, method, url,
                                                Response(o.status_code, NotJson))
                      IN  IF HistoryLoadRaises(history_file)
                          THEN \* save_to_history raised after the tally: except clause
                               /\ tally' = [counted EXCEPT !.failed = @ + 1]
                               /\ outcomes' = Append(outcomes, "history_raised")
                               /\ clock' = clock + 1
                               /\ UNCHANGED <<history_file, saves>>
                          ELSE /\ tally' = counted
                               /\ outcomes' = Append(outcomes,
                                      IF o.status_code < 400 THEN "ok" ELSE "http_error")
                               /\ history_file' = ListFile(
                                      HistoryAfterSave(LoadedHistory(history_file), entry))
                               /\ saves' = Append(saves, entry)
                               /\ clock' = clock + 1
    /\ req_i' = req_i + 1
    /\ pc' = pc
    /\ UNCHANGED <<envVars, subVars, sendVars, testVars, collection>>

\* The loop is over: the "Results" line is printed
RunCollectionFinish ==
    /\ pc = "coll_loop"
    /\ req_i = Len(collection.requests)
    /\ pc' = "coll_done"
    /\ UNCHANGED <<envVars, subVars, sendVars, testVars, histVars, collVars>>

NextColl ==
    \/ RunCollectionNotFound
    \/ RunCollectionStart
    \/ RunCollectionRequest
    \/ RunCollectionFinish

SpecColl == InitColl /\ [][NextColl]_vars

\* The command runs sequentially to its end: no step waits for anything but
\* the HTTP client, which returns or raises within its timeout
SpecCollLive == SpecColl /\ WF_vars(NextColl)

\* C3: run_collection on an existing collection dispatches every request
\* exactly once, in collection order, without retry, goes on to the next
\* request whatever the outcome of the last, and reaches the "Results" line.
C3_EveryRequestOnceThenResults ==
    /\ [](\A k \in 1..Len(dispatched) :
            /\ dispatched[k].index = k
            /\ dispatched[k].call = RequestKwargs(SendArgs(collection.requests[k])))
    /\ [](pc = "coll_loop" => Len(dispatched) = req_i /\ Len(outcomes) = req_i)
    /\ [](pc = "coll_done" => Len(dispatched) = Len(collection.requests))
    /\ [](pc = "coll_loop" => <>(pc = "coll_done"))

\* C3 witness: the "Results" line after three requests, of which one raised
\* in the HTTP client, one came back >= 400 and one came back < 400
C3_Witness ==
    /\ pc = "coll_done"
    /\ Len(dispatched) = 3
    /\ outcomes[1] = "send_raised"
    /\ outcomes[2] = "http_error"
    /\ outcomes[3] = "ok"

\* C10: at the end of run_collection passed + failed = total, also when
\* save_to_history raises after passed was incremented.
C10_TallyAddsUp ==
    pc = "coll_done" => tally.passed + tally.failed = tally.total

----------------------------------------------------------------------------
(* load_environment *)

\* An environment file: its KEY=VALUE lines as a function from keys to values
EnvFile(bindings) == [kind |-> "file", v |-> bindings]

\* load_dotenv(path) with its default override=False: a variable of the file
\* is set only when the process environment does not hold it already
LoadDotenv(env, bindings) ==
    [k \in DOMAIN env \cup DOMAIN bindings |->
        IF k \in DOMAIN env THEN env[k] ELSE bindings[k]]

\* The variables a load_dotenv call sets
SetByLoad(env, bindings) == DOMAIN bindings \ DOMAIN env

EnvNames == {<<"s","t","a","g","i","n","g">>, <<"p","r","o","d">>}

EnvFileInputs ==
    {NoFile,
     EnvFile((<<"H","O","S","T">> :> <<"d","e","v",".","e","x","a","m","p","l","e">>) @@ (<<"T","O","K","E","N">> :> <<"t","0">>)),
     EnvFile(<<"H","O","S","T">> :> <<"p","r","o","d",".","e","x","a","m","p","l","e">>)}

InitEnv ==
    /\ pc = "env_import"
    /\ environ \in {<< >>, <<"H","O","S","T">> :> <<"f","r","o","m","-","s","h","e","l","l">>}
    /\ dotenv_file \in EnvFileInputs
    /\ env_dir \in [EnvNames -> EnvFileInputs]
    /\ current_env = << >>
    /\ loaded = << >>
    /\ IdleSub /\ IdleSend /\ IdleTest /\ IdleHist /\ IdleColl

\* load_environment(env_name): the named file of env_dir when a name is
\* given, the default file otherwise; a file that does not exist is skipped
LoadEnvironment(env_name) ==
    IF env_name # << >>
    THEN IF env_dir[env_name].kind = "file"
         THEN /\ environ' = LoadDotenv(environ, env_dir[env_name].v)
              /\ current_env' = env_name
              /\ loaded' = Append(loaded, [file |-> env_dir[env_name].v,
                                           set |-> SetByLoad(environ, env_dir[env_name].v)])
         ELSE UNCHANGED <<environ, current_env, loaded>>
    ELSE IF dotenv_file.kind = "file"
         THEN /\ environ' = LoadDotenv(environ, dotenv_file.v)
              /\ loaded' = Append(loaded, [file |-> dotenv_file.v,
                                           set |-> SetByLoad(environ, dotenv_file.v)])
              /\ UNCHANGED current_env
         ELSE UNCHANGED <<environ, current_env, loaded>>

\* tester = APITester(): __init__ loads the default file
Construct ==
    /\ pc = "env_import"
    /\ LoadEnvironment(<< >>)
    /\ pc' = "env_cli"
    /\ UNCHANGED <<dotenv_file, env_dir, subVars, sendVars, testVars, histVars, collVars>>

\* cli(env): the group callback, with or without --env
Cli ==
    /\ pc = "env_cli"
    /\ \E env \in EnvNames \cup {<< >>} :
          IF env # << >>
          THEN LoadEnvironment(env)
          ELSE UNCHANGED <<environ, current_env, loaded>>
    /\ pc' = "env_command"
    /\ UNCHANGED <<dotenv_file, env_dir, subVars, sendVars, testVars, histVars, collVars>>

\* use_env(name)
UseEnv ==
    /\ pc = "env_command"
    /\ \E name \in EnvNames : LoadEnvironment(name)
    /\ pc' = "env_done"
    /\ UNCHANGED <<dotenv_file, env_dir, subVars, sendVars, testVars, histVars, collVars>>

NextEnv == Construct \/ Cli \/ UseEnv

SpecEnv == InitEnv /\ [][NextEnv]_vars

\* C4: when environment files are loaded in sequence within one invocation,
\* a key bound by an earlier load and present in a later-loaded file ends up
\* with the later file's value.
C4_LaterLoadOverwrites ==
    loaded # << >> =>
        LET last == loaded[Len(loaded)].file
        IN  \A k \in DOMAIN last :
                (\E j \in 1..(Len(loaded) - 1) : k \in loaded[j].set)
                    => environ[k] = last[k]

----------------------------------------------------------------------------
(* run_test *)

\* repr(s) of a str without backslashes or control characters
StrRepr(s) ==
    IF (\E p \in 1..Len(s) : s[p] = "'") /\ ~(\E p \in 1..Len(s) : s[p] = "\"")
    THEN <<"\"">> \o s \o <<"\"">>
    ELSE <<"'">> \o s \o <<"'">>

RECURSIVE Repr(_), ReprItems(_, _), ReprList(_)
\* repr(x)
Repr(x) ==
    CASE x.kind = "str" -> StrRepr(x.v)
      [] x.kind = "int" -> IntStr(x.v)
      [] x.kind = "bool" -> IF x.v THEN <<"T","r","u","e">> ELSE <<"F","a","l","s","e">>
      [] x.kind = "none" -> <<"N","o","n","e">>
      [] x.kind = "dict" -> <<"{">> \o ReprItems(x, x.keys) \o <<"}">>
      [] x.kind = "list" -> <<"[">> \o ReprList(x.v) \o <<"]">>
ReprItems(d, keys) ==
    IF keys = << >> THEN << >>
    ELSE StrRepr(Head(keys)) \o <<":"," ">> \o Repr(d.at[Head(keys)])
         \o (IF Len(keys) > 1 THEN <<","," ">> ELSE << >>) \o ReprItems(d, Tail(keys))
ReprList(xs) ==
    IF xs = << >> THEN << >>
    ELSE Repr(Head(xs)) \o (IF Len(xs) > 1 THEN <<","," ">> ELSE << >>) \o ReprList(Tail(xs))

\* str(x): a str is itself, everything else its repr
PyStrOf(x) == IF x.kind = "str" THEN x.v ELSE Repr(x)

\* value[key] for a str key: only a dict holding the key has an item;
\* a missing key raises KeyError, any other value raises TypeError
HasItem(value, key) == value.kind = "dict" /\ key \in DOMAIN value.at

RECURSIVE Traverse(_, _)
\* for key in keys: value = value[key]
Traverse(value, keys) ==
    IF keys = << >> THEN [ok |-> TRUE, value |-> value]
    ELSE IF HasItem(value, Head(keys))
         THEN Traverse(value.at[Head(keys)], Tail(keys))
         ELSE [ok |-> FALSE, value |-> PyNone]

Outcome(bucket, entry, branch, raised, keys) ==
    [bucket |-> bucket, entry |-> entry, branch |-> branch, raised |-> raised, keys |-> keys]

IndexErrorText == <<"l","i","s","t"," ","i","n","d","e","x"," ","o","u","t"," ","o","f"," ","r","a","n","g","e">>
ValueErrorText(s) == <<"i","n","v","a","l","i","d"," ","l","i","t","e","r","a","l"," ","f","o","r"," ","i","n","t","(",")"," ","w","i","t","h"," ","b","a","s","e"," ","1","0",":"," ">> \o StrRepr(s)

\* The outer except clause: the assertion fails with the exception's message
Caught(assertion, branch, message) ==
    Outcome("failed", assertion \o <<" ","(","e","r","r","o","r",":"," ">> \o message \o <<")">>, branch, TRUE, << >>)

\* The status_code branch
EvalStatus(resp, assertion) ==
    LET parts == Split(assertion, <<"=","=">>)
    IN  IF Len(parts) < 2 THEN Caught(assertion, "status", IndexErrorText)
        ELSE LET expected == IntParse(Strip(parts[2]))
             IN  IF ~expected.ok
                 THEN Caught(assertion, "status", ValueErrorText(Strip(parts[2])))
                 ELSE IF resp.status_code = expected.v
                      THEN Outcome("passed", assertion, "status", FALSE, << >>)
                      ELSE Outcome("failed",
                                   assertion \o <<" ","(","g","o","t"," ">> \o IntStr(resp.status_code) \o <<")">>,
                                   "status", FALSE, << >>)

\* The body. branch
EvalBody(resp, assertion) ==
    LET parts == Split(assertion, <<"=","=">>)
        path  == Replace(Strip(parts[1]), <<"b","o","d","y",".">>, << >>)
    IN  IF Len(parts) < 2 THEN Caught(assertion, "body", IndexErrorText)
        ELSE LET expected == StripChars(Strip(parts[2]), {"'", "\""})
                 keys     == Split(path, <<".">>)
                 invalid  == Outcome("failed",
                                 assertion \o <<" ","(","i","n","v","a","l","i","d"," ","p","a","t","h"," ","o","r"," ","r","e","s","p","o","n","s","e"," ","n","o","t"," ","J","S","O","N",")">>,
                                 "body", FALSE, keys)
             IN  IF resp.body.kind = "notjson" THEN invalid
                 ELSE LET found == Traverse(resp.body, keys)
                      IN  IF ~found.ok THEN invalid
                          ELSE IF PyStrOf(found.value) = expected
                               THEN Outcome("passed", assertion, "body", FALSE, keys)
                               ELSE Outcome("failed",
                                       assertion \o <<" ","(","g","o","t"," ">> \o PyStrOf(found.value) \o <<")">>,
                                       "body", FALSE, keys)

\* One pass of the loop body of run_test: an assertion with neither prefix
\* takes no branch and appends nothing
EvalAssertion(resp, assertion) ==
    IF StartsWith(assertion, <<"s","t","a","t","u","s","_","c","o","d","e">>) THEN EvalStatus(resp, assertion)
    ELSE IF StartsWith(assertion, <<"b","o","d","y",".">>) THEN EvalBody(resp, assertion)
    ELSE Outcome("none", << >>, "none", FALSE, << >>)

Dict2(k1, v1, k2, v2) == PyDict(<<k1, k2>>, (k1 :> v1) @@ (k2 :> v2))

TestResponses ==
    << Response(200, Dict1(<<"u","s","e","r">>, Dict1(<<"i","d">>, PyInt(42)))),
       Response(404, NotJson),
       Response(200, Dict1(<<"d","a","t","a">>, Dict2(<<"b","o","d","y">>, Dict1(<<"x">>, PyStr(<<"v">>)),
                                          <<"x">>, PyStr(<<"w">>)))),
       Response(500, PyList(<<PyInt(1)>>)),
       Response(201, Dict2(<<"u","s","e","r">>, PyStr(<<"x">>), <<"o","k">>, PyBool(TRUE))) >>

TestAssertions ==
    {<<"s","t","a","t","u","s","_","c","o","d","e"," ","=","="," ","2","0","0">>,
     <<"s","t","a","t","u","s","_","c","o","d","e","=","=","+","2","_","0","0"," ">>,
     <<"s","t","a","t","u","s","_","c","o","d","e"," ","=","="," ","2","0","0"," ","=","="," ","3","0","0">>,
     <<"s","t","a","t","u","s","_","c","o","d","e"," ","=","="," ","a","b","c">>,
     <<"s","t","a","t","u","s","_","c","o","d","e">>,
     <<"b","o","d","y",".","u","s","e","r",".","i","d"," ","=","="," ","'","4","2","'">>,
     <<"b","o","d","y",".","d","a","t","a",".","b","o","d","y",".","x"," ","=","="," ","'","v","'">>,
     <<"b","o","d","y",".","u","s","e","r",".","n","a","m","e"," ","=","="," ","\\","\"","x","\\","\"">>,
     <<"b","o","d","y",".","u","s","e","r">>,
     <<"b","o","d","y",".","u","s","e","r"," ","=","="," ","x">>,
     <<"b","o","d","y",".","o","k"," ","=","="," ","T","r","u","e">>,
     <<"h","e","a","d","e","r","s",".","x"," ","=","="," ","1">>}

InitTest ==
    /\ pc = "test_loop"
    /\ \E r \in 1..Len(TestResponses) : response = TestResponses[r]
    /\ \E n \in 0..MaxAssertions : assertions \in [1..n -> TestAssertions]
    /\ idx = 1
    /\ results = [passed |-> << >>, failed |-> << >>]
    /\ trace = << >>
    /\ environ = << >>
    /\ IdleEnv /\ IdleSub /\ IdleSend /\ IdleHist /\ IdleColl

\* One iteration of the loop over the assertions
RunTestStep ==
    /\ pc = "test_loop"
    /\ idx <= Len(assertions)
    /\ LET o == EvalAssertion(response, assertions[idx])
       IN  /\ results' = CASE o.bucket = "passed" -> [results EXCEPT !.passed = Append(@, o.entry)]
                           [] o.bucket = "failed" -> [results EXCEPT !.failed = Append(@, o.entry)]
                           [] OTHER -> results
           /\ trace' = Append(trace, o)
    /\ idx' = idx + 1
    /\ UNCHANGED <<pc, environ, envVars, subVars, sendVars, response, assertions,
                   histVars, collVars>>

\* return results
RunTestReturn ==
    /\ pc = "test_loop"
    /\ idx > Len(assertions)
    /\ pc' = "test_done"
    /\ UNCHANGED <<envVars, subVars, sendVars, testVars, histVars, collVars>>

NextTest == RunTestStep \/ RunTestReturn

SpecTest == InitTest /\ [][NextTest]_vars

\* C1: run_test is total: every input assertion, whatever its form, yields
\* exactly one outcome in exactly one of passed and failed, so
\* len(passed) + len(failed) = len(assertions).
C1_Total ==
    pc = "test_done" =>
        /\ Len(results.passed) + Len(results.failed) = Len(assertions)
        /\ \A k \in 1..Len(assertions) : trace[k].bucket \in {"passed", "failed"}

\* C7: run_test never stops early: an assertion whose evaluation raises is
\* recorded in failed, and every later assertion is still evaluated and
\* classified.
C7_RaisingAssertionDoesNotStopBatch ==
    pc = "test_done" =>
        /\ Len(trace) = Len(assertions)
        /\ \A k \in 1..Len(trace) :
              trace[k].raised =>
                  /\ trace[k].bucket = "failed"
                  /\ \A j \in (k + 1)..Len(trace) : trace[j].bucket \in {"passed", "failed"}

\* The text after the first "==" of s, trimmed
RightOfFirstEq(s) ==
    LET p == Find(s, <<"=","=">>) IN Strip(Slice(s, p + 2, Len(s)))

\* C8: a status_code assertion is split once on "==" and the whole trimmed
\* right-hand side must parse as an integer: passed iff that integer is the
\* status code, failed with "(got <status_code>)" when it differs, failed with
\* an error reason when it does not parse.
C8_WholeRightHandSideParsed ==
    \A k \in 1..Len(trace) :
        LET a == assertions[k]
            expected == IntParse(RightOfFirstEq(a))
        IN  StartsWith(a, <<"s","t","a","t","u","s","_","c","o","d","e">>) =>
                IF Find(a, <<"=","=">>) > 0 /\ expected.ok
                THEN IF expected.v = response.status_code
                     THEN trace[k].bucket = "passed" /\ trace[k].entry = a
                     ELSE /\ trace[k].bucket = "failed"
                          /\ trace[k].entry = a \o <<" ","(","g","o","t"," ">> \o IntStr(response.status_code) \o <<")">>
                ELSE /\ trace[k].bucket = "failed"
                     /\ StartsWith(trace[k].entry, a \o <<" ","(","e","r","r","o","r",":"," ">>)

\* C9: for a body. assertion the traversed path is the left-hand side with
\* only the leading "body." removed, split on dots: a later segment named
\* "body" is kept.
C9_OnlyLeadingPrefixRemoved ==
    \A k \in 1..Len(trace) :
        (trace[k].branch = "body" /\ ~trace[k].raised) =>
            LET lhs == Strip(Split(assertions[k], <<"=","=">>)[1])
            IN  trace[k].keys = Split(Slice(lhs, Len(<<"b","o","d","y",".">>) + 1, Len(lhs)), <<".">>)

=============================================================================
